---- MODULE Spec2Model ----
(***************************************************************************)
(* Model of sheet_writer.go (package xlsx_tags): the `xls` struct-tag      *)
(* grammar, the collection and ordering of column options, the formatting  *)
(* of field values and the rows appended to the sheet.                     *)
(*                                                                         *)
(* Go strings are modelled as sequences of one-character strings, so that  *)
(* the regular expressions, strings.Trim, strconv.Atoi, fmt.Sprintf and    *)
(* time.Format are computed character by character.                        *)
(***************************************************************************)
EXTENDS Integers, Sequences, FiniteSets, TLC

VARIABLES
    tagParts,        \* parseOptFromTag: the pieces the tag under test is made of
    tag,             \* parseOptFromTag: the tag handed to parseOptFromTag
    parsed,          \* parseOptFromTag: what parseOptFromTag returned
    entry,           \* which function of the package was called
    data,            \* the `data` argument: kind, element kind, fields, length
    pc,              \* position of the call
    opts,            \* writeWithTags: opts
    orderToCellPos,  \* writeWithTags: orderToCellPos
    values,          \* writeWithTags: values (one buffer for all records)
    i,               \* writeWithTags: record index (1-based)
    j,               \* writeWithTags: field index (1-based)
    item,            \* writeWithTags: item := v.Index(i)
    records,         \* the records of data read so far: v.Index(1), ..., v.Index(i)
    sheet,           \* the rows appended to the sheet, in order
    result           \* what the call returned ("nil", an error, or "panic")

parseVars == <<tagParts, tag, parsed>>
writeVars == <<entry, data, pc, opts, orderToCellPos, values, i, j, item, records, sheet,
               result>>
vars == <<tagParts, tag, parsed, entry, data, pc, opts, orderToCellPos, values, i, j,
          item, records, sheet, result>>

(***************************************************************************)
(* Characters and the character classes of the three regular expressions.  *)
(***************************************************************************)
DigitChars == <<"0", "1", "2", "3", "4", "5", "6", "7", "8", "9">>

IsDigit(c) == c \in {"0", "1", "2", "3", "4", "5", "6", "7", "8", "9"}

DigitVal(c) == (CHOOSE d \in 1..10 : DigitChars[d] = c) - 1

Letters ==
    {"a", "b", "c", "d", "e", "f", "g", "h", "i", "j", "k", "l", "m",
     "n", "o", "p", "q", "r", "s", "t", "u", "v", "w", "x", "y", "z",
     "A", "B", "C", "D", "E", "F", "G", "H", "I", "J", "K", "L", "M",
     "N", "O", "P", "Q", "R", "S", "T", "U", "V", "W", "X", "Y", "Z"}

\* \w of RE2: [0-9A-Za-z_]
IsWord(c) == IsDigit(c) \/ c \in Letters \/ c = "_"

\* \s of RE2: [\t\n\f\r ]
IsSpace(c) == c \in {" ", "\t", "\n", "\f", "\r"}

\* The character classes of the regular expressions:
\*   "order"          [\d\s\w]
\*   "headingQuoted"  [#\w.,-/\\ ]     (,-/ is the range , - . /)
\*   "headingBare"    [#\w\s]
\*   "format"         [-\w\s%.\d\\/]
InClass(cls, c) ==
    CASE cls = "order" -> IsDigit(c) \/ IsSpace(c) \/ IsWord(c)
      [] cls = "headingQuoted" ->
             c = "#" \/ IsWord(c) \/ c \in {".", ",", "-", "/", "\\", " "}
      [] cls = "headingBare" -> c = "#" \/ IsWord(c) \/ IsSpace(c)
      [] cls = "format" ->
             c \in {"-", "%", ".", "\\", "/"} \/ IsWord(c) \/ IsSpace(c) \/ IsDigit(c)

(***************************************************************************)
(* Matching helpers.                                                       *)
(***************************************************************************)
\* the literal lit occurs in s at position p
HasPrefixAt(s, p, lit) ==
    /\ p + Len(lit) - 1 <= Len(s)
    /\ \A k \in 1..Len(lit) : s[p + k - 1] = lit[k]

\* the position after the longest run of Class characters of s that starts at p
RECURSIVE RunEnd(_, _, _)
RunEnd(s, p, cls) ==
    IF p <= Len(s) /\ InClass(cls, s[p]) THEN RunEnd(s, p + 1, cls) ELSE p

\* (,|$) at position q
CommaOrEnd(s, q) == q = Len(s) + 1 \/ (q <= Len(s) /\ s[q] = ",")

KeyOrder == <<"o", "r", "d", "e", "r", "=">>
KeyHeading == <<"h", "e", "a", "d", "i", "n", "g", "=">>
KeyFormat == <<"f", "o", "r", "m", "a", "t", "=">>

\* order=(?P<order>[\d\s\w]+),?   tried at position p
OrderAltAt(s, p) ==
    /\ HasPrefixAt(s, p, KeyOrder)
    /\ RunEnd(s, p + Len(KeyOrder), "order") > p + Len(KeyOrder)

\* orderRegex: order=(?P<order>[\d\s\w]+),?|$  leftmost match, first alternative
\* preferred; the value is the capture named order ("" when the match is the
\* empty one at the end of the text).
RECURSIVE orderRegexFrom(_, _)
orderRegexFrom(s, p) ==
    IF p > Len(s) THEN << >>
    ELSE IF OrderAltAt(s, p)
    THEN SubSeq(s, p + Len(KeyOrder), RunEnd(s, p + Len(KeyOrder), "order") - 1)
    ELSE orderRegexFrom(s, p + 1)

orderRegex(s) == orderRegexFrom(s, 1)

\* ("[#\w.,-/\\ ]+") followed by (,|$), the value starting at q
HeadingQuotedAt(s, q) ==
    /\ q <= Len(s)
    /\ s[q] = "\""
    /\ LET r == RunEnd(s, q + 1, "headingQuoted")
       IN  /\ r > q + 1
           /\ r <= Len(s)
           /\ s[r] = "\""
           /\ CommaOrEnd(s, r + 1)

\* ([#\w\s]+) followed by (,|$), the value starting at q
HeadingBareAt(s, q) ==
    LET r == RunEnd(s, q, "headingBare")
    IN  r > q /\ CommaOrEnd(s, r)

HeadingAt(s, p) ==
    /\ HasPrefixAt(s, p, KeyHeading)
    /\ (HeadingQuotedAt(s, p + Len(KeyHeading)) \/ HeadingBareAt(s, p + Len(KeyHeading)))

\* headingRegex: heading=(?P<heading>("[#\w.,-/\\ ]+")|([#\w\s]+))(,|$)
\* the capture named heading of the leftmost match, "" when nothing matches.
RECURSIVE headingRegexFrom(_, _)
headingRegexFrom(s, p) ==
    IF p > Len(s) THEN << >>
    ELSE IF HeadingAt(s, p)
    THEN LET q == p + Len(KeyHeading)
         IN  IF HeadingQuotedAt(s, q)
             THEN SubSeq(s, q, RunEnd(s, q + 1, "headingQuoted"))
             ELSE SubSeq(s, q, RunEnd(s, q, "headingBare") - 1)
    ELSE headingRegexFrom(s, p + 1)

headingRegex(s) == headingRegexFrom(s, 1)

FormatAt(s, p) ==
    /\ HasPrefixAt(s, p, KeyFormat)
    /\ LET r == RunEnd(s, p + Len(KeyFormat), "format")
       IN  r > p + Len(KeyFormat) /\ CommaOrEnd(s, r)

\* formatRegex: format=(?P<format>[-\w\s%.\d\\/]+)(,|$)
RECURSIVE formatRegexFrom(_, _)
formatRegexFrom(s, p) ==
    IF p > Len(s) THEN << >>
    ELSE IF FormatAt(s, p)
    THEN SubSeq(s, p + Len(KeyFormat), RunEnd(s, p + Len(KeyFormat), "format") - 1)
    ELSE formatRegexFrom(s, p + 1)

formatRegex(s) == formatRegexFrom(s, 1)

(***************************************************************************)
(* strings.Trim, strings.TrimSpace, strconv.Atoi.                          *)
(***************************************************************************)
\* strings.Trim: s without its leading and trailing characters that are in cutset
RECURSIVE Trim(_, _)
Trim(s, cutset) ==
    IF s = << >> THEN s
    ELSE IF s[1] \in cutset THEN Trim(Tail(s), cutset)
    ELSE IF s[Len(s)] \in cutset THEN Trim(SubSeq(s, 1, Len(s) - 1), cutset)
    ELSE s

\* strings.TrimSpace, over the white space of the alphabet
TrimSpace(s) == Trim(s, {" ", "\t", "\n", "\f", "\r"})

RECURSIVE DecimalValue(_)
DecimalValue(s) ==
    IF s = << >> THEN 0
    ELSE 10 * DecimalValue(SubSeq(s, 1, Len(s) - 1)) + DigitVal(s[Len(s)])

\* strconv.Atoi: an optional sign, then one or more decimal digits
Atoi(s) ==
    LET signed == s # << >> /\ s[1] \in {"+", "-"}
        digits == IF signed THEN Tail(s) ELSE s
    IN  IF digits # << >> /\ \A k \in 1..Len(digits) : IsDigit(digits[k])
        THEN [err |-> "nil",
              val |-> IF signed /\ s[1] = "-" THEN 0 - DecimalValue(digits)
                      ELSE DecimalValue(digits)]
        ELSE [err |-> "ErrSyntax", val |-> 0]

(***************************************************************************)
(* The tag parser.                                                         *)
(***************************************************************************)
orderFromTag(t) == Atoi(orderRegex(t))

headingFromTagNoTrimSpace(t) ==
    LET heading == Trim(headingRegex(t), {"\""})
    IN  IF heading # << >>
        THEN [err |-> "nil", val |-> heading]
        ELSE [err |-> "ErrHeadingPropRequired", val |-> heading]

headingFromTag(t) ==
    LET heading == TrimSpace(Trim(headingRegex(t), {"\""}))
    IN  IF heading # << >>
        THEN [err |-> "nil", val |-> heading]
        ELSE [err |-> "ErrHeadingPropRequired", val |-> heading]

formatFromTag(t) == formatRegex(t)

ZeroOpts == [order |-> 0, heading |-> << >>, format |-> << >>]

parseOptFromTag(t) ==
    LET order == orderFromTag(t)
        heading == headingFromTag(t)
    IN  IF order.err # "nil" THEN [err |-> order.err, opt |-> ZeroOpts]
        ELSE IF heading.err # "nil" THEN [err |-> heading.err, opt |-> ZeroOpts]
        ELSE [err |-> "nil",
              opt |-> [order |-> order.val, heading |-> heading.val,
                       format |-> formatFromTag(t)]]

(***************************************************************************)
(* Field values and their formatting: fmt.Sprintf, time.Time.Format,       *)
(* time.Time.String and the String method of a named type.                 *)
(*                                                                         *)
(* A value is a record tagged with its runtime type:                       *)
(*   [type |-> "int", n |-> 7]              the built-in int               *)
(*   [type |-> "string", s |-> <<"a","b">>] the built-in string            *)
(*   [type |-> "time.Time", year, month, day]  an instant at 00:00:00 UTC  *)
(*   [type |-> "Level", n |-> 2]            type Level int, with String()  *)
(*   [type |-> "bool", b |-> TRUE]          the built-in bool              *)
(***************************************************************************)
RECURSIVE Itoa(_)
Itoa(n) ==
    IF n < 10 THEN <<DigitChars[n + 1]>>
    ELSE Itoa(n \div 10) \o <<DigitChars[(n % 10) + 1]>>

\* n in decimal, padded with zeros on the left to width w
RECURSIVE ZeroPad(_, _)
ZeroPad(s, w) == IF Len(s) >= w THEN s ELSE ZeroPad(<<"0">> \o s, w)

\* the names fmt prints for the types
TypeName(val) ==
    CASE val.type = "int" -> <<"i", "n", "t">>
      [] val.type = "string" -> <<"s", "t", "r", "i", "n", "g">>
      [] val.type = "bool" -> <<"b", "o", "o", "l">>

\* what %v prints
DefaultText(val) ==
    CASE val.type = "int" -> Itoa(val.n)
      [] val.type = "string" -> val.s
      [] val.type = "bool" ->
             IF val.b THEN <<"t", "r", "u", "e">> ELSE <<"f", "a", "l", "s", "e">>

\* %!c(type=value): a verb that does not fit the operand
BadVerb(c, val) ==
    <<"%", "!", c, "(">> \o TypeName(val) \o <<"=">> \o DefaultText(val) \o <<")">>

\* one verb applied to the operand
VerbText(c, val) ==
    CASE c = "v" -> DefaultText(val)
      [] c = "d" -> IF val.type = "int" THEN Itoa(val.n) ELSE BadVerb(c, val)
      [] c = "s" -> IF val.type = "string" THEN val.s ELSE BadVerb(c, val)
      [] OTHER -> BadVerb(c, val)

\* fmt.Sprintf(format, val) with one operand, for formats made of literal text
\* and the verbs %v %d %s %% without flags: used is whether a verb has taken the
\* operand already.
RECURSIVE SprintfFrom(_, _, _, _)
SprintfFrom(format, k, val, used) ==
    IF k > Len(format)
    THEN IF used THEN << >>
         ELSE <<"%", "!", "(", "E", "X", "T", "R", "A", " ">> \o TypeName(val)
              \o <<"=">> \o DefaultText(val) \o <<")">>
    ELSE IF format[k] # "%"
    THEN <<format[k]>> \o SprintfFrom(format, k + 1, val, used)
    ELSE IF k = Len(format)
    THEN <<"%", "!", "(", "N", "O", "V", "E", "R", "B", ")">>
         \o SprintfFrom(format, k + 1, val, used)
    ELSE IF format[k + 1] = "%"
    THEN <<"%">> \o SprintfFrom(format, k + 2, val, used)
    ELSE IF used
    THEN <<"%", "!", format[k + 1], "(", "M", "I", "S", "S", "I", "N", "G", ")">>
         \o SprintfFrom(format, k + 2, val, used)
    ELSE VerbText(format[k + 1], val) \o SprintfFrom(format, k + 2, val, TRUE)

Sprintf(format, val) == SprintfFrom(format, 1, val, FALSE)

\* time.Time.Format(layout) for layouts made of literal text and the reference
\* elements 2006 (year), 01 (month) and 02 (day)
RECURSIVE TimeFormatFrom(_, _, _)
TimeFormatFrom(layout, k, t) ==
    IF k > Len(layout) THEN << >>
    ELSE IF HasPrefixAt(layout, k, <<"2", "0", "0", "6">>)
    THEN ZeroPad(Itoa(t.year), 4) \o TimeFormatFrom(layout, k + 4, t)
    ELSE IF HasPrefixAt(layout, k, <<"0", "1">>)
    THEN ZeroPad(Itoa(t.month), 2) \o TimeFormatFrom(layout, k + 2, t)
    ELSE IF HasPrefixAt(layout, k, <<"0", "2">>)
    THEN ZeroPad(Itoa(t.day), 2) \o TimeFormatFrom(layout, k + 2, t)
    ELSE <<layout[k]>> \o TimeFormatFrom(layout, k + 1, t)

TimeFormat(t, layout) == TimeFormatFrom(layout, 1, t)

\* time.Time.String() of an instant at midnight UTC:
\* "2006-01-02 15:04:05.999999999 -0700 MST"
TimeString(t) ==
    TimeFormat(t, <<"2", "0", "0", "6", "-", "0", "1", "-", "0", "2">>)
    \o <<" ", "0", "0", ":", "0", "0", ":", "0", "0", " ",
         "+", "0", "0", "0", "0", " ", "U", "T", "C">>

\* time.Time.IsZero: January 1, year 1, 00:00:00 UTC
IsZero(t) == t.year = 1 /\ t.month = 1 /\ t.day = 1

\* func (l Level) String() string { return "L" + strconv.Itoa(int(l)) }
LevelString(val) == <<"L">> \o Itoa(val.n)

\* the runtime types with a String() string method (fmt.Stringer)
IsStringer(val) == val.type \in {"time.Time", "Level"}

String(val) == IF val.type = "time.Time" THEN TimeString(val) ELSE LevelString(val)

Placeholder == <<" ", "-", " ">>

PercentV == <<"%", "v">>

hasFormatting(o) == o.format = << >>

\* FormatValue with the zero-instant check made only where String() is used
FormatValueZeroInElse(val, opt) ==
    IF val.type \in {"int", "int8", "int16", "int32", "int64",
                     "float32", "float64", "string"}
    THEN Sprintf(IF hasFormatting(opt) THEN opt.format ELSE PercentV, val)
    ELSE IF val.type = "time.Time"
    THEN IF hasFormatting(opt) THEN TimeFormat(val, opt.format)
         ELSE IF IsZero(val) THEN Placeholder
         ELSE TimeString(val)
    ELSE IF IsStringer(val)
    THEN String(val)
    ELSE Sprintf(PercentV, val)

\* FormatValue switching on the kind of the value instead of its type, so that
\* a named integer type is formatted as the integer it is built on
FormatValueByKind(val, opt) ==
    IF val.type \in {"int", "int8", "int16", "int32", "int64",
                     "float32", "float64", "string", "Level"}
    THEN Sprintf(IF hasFormatting(opt) THEN opt.format ELSE PercentV,
                 IF val.type = "Level" THEN [type |-> "int", n |-> val.n] ELSE val)
    ELSE IF val.type = "time.Time"
    THEN IF IsZero(val) THEN Placeholder
         ELSE IF hasFormatting(opt) THEN TimeFormat(val, opt.format)
         ELSE TimeString(val)
    ELSE IF IsStringer(val)
    THEN String(val)
    ELSE Sprintf(PercentV, val)

\* the type switch of writeWithTags (the first case that matches is taken):
\* the string stored in values[pos]
FormatValue(val, opt) ==
    IF val.type \in {"int", "int8", "int16", "int32", "int64",
                     "float32", "float64", "string"}
    THEN Sprintf(IF hasFormatting(opt) THEN opt.format ELSE PercentV, val)
    ELSE IF val.type = "time.Time"
    THEN IF IsZero(val) THEN Placeholder
         ELSE IF hasFormatting(opt) THEN TimeFormat(val, opt.format)
         ELSE TimeString(val)
    ELSE IF IsStringer(val)
    THEN String(val)
    ELSE Sprintf(PercentV, val)

(***************************************************************************)
(* Tags under test: the parts order=N, heading=H and format=F joined by    *)
(* commas in a chosen key order.                                           *)
(***************************************************************************)
\* order values: the text and the integer it denotes
OrderTexts ==
    {[text |-> <<"7">>, value |-> 7],
     [text |-> <<"1", "2">>, value |-> 12],
     [text |-> <<"0", "0", "7">>, value |-> 7],
     [text |-> <<"-", "3">>, value |-> 0 - 3]}

\* headings: the text as written in the tag, and the heading it denotes
\* (quotes stripped, surrounding white space trimmed)
HeadingTexts ==
    {[text |-> <<"A">>, value |-> <<"A">>],
     [text |-> <<" ", "A", " ", "B", " ">>, value |-> <<"A", " ", "B">>],
     [text |-> <<"\"", "A", ",", "B", "\"">>, value |-> <<"A", ",", "B">>],
     [text |-> <<"\"", " ", "x", " ", "\"">>, value |-> <<"x">>],
     [text |-> <<"\"", "Q", "&", "A", "\"">>, value |-> <<"Q", "&", "A">>],
     [text |-> <<"A", "-", "B">>, value |-> <<"A", "-", "B">>]}

\* formats
FormatTexts ==
    {<<"%", "d">>,
     <<"%", ".", "2", "f">>,
     <<"2", "0", "0", "6", "-", "0", "1", "-", "0", "2">>,
     <<"1", "5", ":", "0", "4">>}

\* the orders in which the keys can be written, with and without format
KeyOrders ==
    {<<"order", "heading">>, <<"heading", "order">>,
     <<"order", "heading", "format">>, <<"order", "format", "heading">>,
     <<"heading", "order", "format">>, <<"heading", "format", "order">>,
     <<"format", "order", "heading">>, <<"format", "heading", "order">>}

TagPartsSpace ==
    {[n |-> n, h |-> h, f |-> f, keys |-> ks] :
        n \in OrderTexts, h \in HeadingTexts, f \in FormatTexts \cup {<< >>},
        ks \in KeyOrders}

HasFormat(parts) == \E k \in 1..Len(parts.keys) : parts.keys[k] = "format"

\* key=value of one key
PairText(parts, key) ==
    CASE key = "order" -> KeyOrder \o parts.n.text
      [] key = "heading" -> KeyHeading \o parts.h.text
      [] key = "format" -> KeyFormat \o parts.f

RECURSIVE JoinPairs(_, _)
JoinPairs(parts, k) ==
    IF k = Len(parts.keys) THEN PairText(parts, parts.keys[k])
    ELSE PairText(parts, parts.keys[k]) \o <<",">> \o JoinPairs(parts, k + 1)

BuildTag(parts) == JoinPairs(parts, 1)

InitParse ==
    /\ tagParts \in {x \in TagPartsSpace : HasFormat(x) <=> x.f # << >>}
    /\ tag = BuildTag(tagParts)
    /\ parsed = [err |-> "pending", opt |-> ZeroOpts]
    /\ entry = "parseOptFromTag"
    /\ data = [kind |-> "none"]
    /\ pc = "idle"
    /\ opts = << >>
    /\ orderToCellPos = << >>
    /\ values = << >>
    /\ i = 0
    /\ j = 0
    /\ item = << >>
    /\ records = << >>
    /\ sheet = << >>
    /\ result = "none"

\* one call of parseOptFromTag(tag)
ParseTag ==
    /\ parsed.err = "pending"
    /\ parsed' = parseOptFromTag(tag)
    /\ UNCHANGED <<tagParts, tag>>
    /\ UNCHANGED writeVars

NextParse == ParseTag

SpecParse == InitParse /\ [][NextParse]_vars

(***************************************************************************)
(* The record types and the data of a call.                                *)
(***************************************************************************)
\* the most fields of a record type, and the most records of a collection
MaxFields == 2
MaxRecords == 2

TagOf(ks, n, h, f) ==
    BuildTag([n |-> [text |-> n], h |-> [text |-> h], f |-> f, keys |-> ks])

ZeroTime == [type |-> "time.Time", year |-> 1, month |-> 1, day |-> 1]
SomeTime == [type |-> "time.Time", year |-> 2024, month |-> 3, day |-> 5]

\* The field declarations a record type is made of: the xls tag, and the values
\* a field of that declaration can hold (all of the field's type).
FieldPool ==
    {[tag |-> << >>, vals |-> {[type |-> "string", s |-> <<"n", "o">>]}],
     [tag |-> <<"-">>, vals |-> {[type |-> "int", n |-> 9]}],
     [tag |-> TagOf(<<"order", "heading">>, <<"2">>, <<"B">>, << >>),
      vals |-> {[type |-> "int", n |-> 7]}],
     [tag |-> TagOf(<<"heading", "order", "format">>, <<"1">>, <<"A">>, <<"%", "d">>),
      vals |-> {[type |-> "int", n |-> 42]}],
     [tag |-> TagOf(<<"order", "heading", "format">>, <<"1">>, <<"C">>, <<"%", "s">>),
      vals |-> {[type |-> "string", s |-> <<"a", "b">>]}],
     [tag |-> TagOf(<<"order", "heading">>, <<"3">>, <<"\"", "T", " ", "0", "\"">>, << >>),
      vals |-> {ZeroTime, SomeTime}],
     [tag |-> TagOf(<<"format", "order", "heading">>, <<"3">>, <<"U">>,
                    <<"2", "0", "0", "6">>),
      vals |-> {ZeroTime, SomeTime}],
     [tag |-> TagOf(<<"order", "format", "heading">>, <<"4">>, <<"L">>, <<"%", "d">>),
      vals |-> {[type |-> "Level", n |-> 2]}],
     [tag |-> TagOf(<<"order", "heading">>, <<"5">>, <<"K">>, << >>),
      vals |-> {[type |-> "bool", b |-> TRUE]}],
     [tag |-> TagOf(<<"order", "heading">>, <<"x">>, <<"G">>, << >>),
      vals |-> {[type |-> "int", n |-> 7]}],
     [tag |-> KeyOrder \o <<"6">>,
      vals |-> {[type |-> "int", n |-> 7]}]}

\* the record types: sequences of 1..MaxFields field declarations
RecordTypes == UNION {[1..k -> FieldPool] : k \in 1..MaxFields}

\* the rows a Marshaller provides
HeaderAB == <<<<"A">>, <<"B">>>>
RowsOf(k) == [r \in 1..k |-> <<Itoa(2 * r - 1), Itoa(2 * r)>>]

\* The arguments of a call.
\*   kind, elem   reflect.Kind of data and of its element type
\*   fields       the fields of the element type, when it is a struct
\*   len          v.Len()
\*   marshaller   whether the type of data has the methods Header and Data
\*   header, rows what Header() and Data() return
TaggedInputs ==
    {[kind |-> "slice", elem |-> "struct", fields |-> fs, len |-> k,
      marshaller |-> FALSE, header |-> << >>, rows |-> << >>] :
        fs \in RecordTypes, k \in 0..MaxRecords}

MarshallerInputs ==
    {[kind |-> kd, elem |-> "struct", fields |-> fs, len |-> k,
      marshaller |-> TRUE, header |-> HeaderAB, rows |-> RowsOf(k)] :
        kd \in {"slice", "array"}, fs \in [1..1 -> FieldPool], k \in 0..MaxRecords}

OtherInputs ==
    {[kind |-> kd, elem |-> el, fields |-> << >>, len |-> 0,
      marshaller |-> FALSE, header |-> << >>, rows |-> << >>] :
        kd \in {"slice", "array"}, el \in {"int", "string", "ptr"}}
    \cup
    {[kind |-> kd, elem |-> "none", fields |-> << >>, len |-> 0,
      marshaller |-> FALSE, header |-> << >>, rows |-> << >>] :
        kd \in {"struct", "int", "map", "ptr"}}

\* The calls: WriteToSheet with anything; writeWithTags with a collection of
\* structs; writeWithMarshaller with a Marshaller.
Calls ==
    {<<"WriteToSheet", d>> :
        d \in OtherInputs \cup MarshallerInputs
              \cup {x \in TaggedInputs : Len(x.fields) = 1}}
    \cup {<<"writeWithTags", d>> : d \in TaggedInputs}
    \cup {<<"writeWithMarshaller", d>> : d \in MarshallerInputs}

(***************************************************************************)
(* WriteToSheet.                                                           *)
(***************************************************************************)
\* reflect.TypeOf of a nil interface value is the nil Type
NilType == "nil Type"

\* var marshallerType = reflect.TypeOf((Marshaller)(nil))
marshallerType == NilType

\* v.Type().Implements(u): panics when u is the nil Type
Implements(d, u) ==
    IF u = NilType THEN "panic"
    ELSE IF d.marshaller THEN "true" ELSE "false"

Init ==
    /\ tagParts = [n |-> [text |-> << >>, value |-> 0],
                   h |-> [text |-> << >>, value |-> << >>],
                   f |-> << >>, keys |-> << >>]
    /\ tag = << >>
    /\ parsed = [err |-> "pending", opt |-> ZeroOpts]
    /\ \E c \in Calls : entry = c[1] /\ data = c[2]
    /\ pc = entry
    /\ opts = << >>
    /\ orderToCellPos = << >>
    /\ values = << >>
    /\ i = 0
    /\ j = 0
    /\ item = << >>
    /\ records = << >>
    /\ sheet = << >>
    /\ result = "none"

\* writeRow: one row appended to the sheet, one cell per string
writeRow(sh, row) == Append(sh, row)

WriteToSheet ==
    /\ pc = "WriteToSheet"
    /\ IF data.kind \notin {"array", "slice"}
       THEN pc' = "done" /\ result' = "ErrUnsupportedType"
       ELSE IF data.elem # "struct"
       THEN pc' = "done" /\ result' = "ErrUnsupportedContentType"
       ELSE IF Implements(data, marshallerType) = "panic"
       THEN pc' = "done" /\ result' = "panic"
       ELSE IF Implements(data, marshallerType) = "true"
       THEN pc' = "writeWithMarshaller" /\ result' = result
       ELSE pc' = "writeWithTags" /\ result' = result
    /\ UNCHANGED <<entry, data, opts, orderToCellPos, values, i, j, item, records, sheet>>
    /\ UNCHANGED parseVars

(***************************************************************************)
(* writeWithMarshaller.                                                    *)
(***************************************************************************)
\* m := data.(Marshaller); writeHeading(sheet, m.Header())
MarshallerHeading ==
    /\ pc = "writeWithMarshaller"
    /\ sheet' = writeRow(sheet, data.header)
    /\ i' = 1
    /\ pc' = "rows"
    /\ UNCHANGED <<entry, data, opts, orderToCellPos, values, j, item, records, result>>
    /\ UNCHANGED parseVars

\* for _, row := range m.Data() { writeRow(sheet, row) }
MarshallerRow ==
    /\ pc = "rows"
    /\ i <= Len(data.rows)
    /\ sheet' = writeRow(sheet, data.rows[i])
    /\ i' = i + 1
    /\ UNCHANGED <<entry, data, pc, opts, orderToCellPos, values, j, item, records, result>>
    /\ UNCHANGED parseVars

MarshallerReturn ==
    /\ pc = "rows"
    /\ i > Len(data.rows)
    /\ pc' = "done"
    /\ result' = "nil"
    /\ UNCHANGED <<entry, data, opts, orderToCellPos, values, i, j, item, records, sheet>>
    /\ UNCHANGED parseVars

(***************************************************************************)
(* writeWithTags.                                                          *)
(***************************************************************************)
\* tag == "" || tag == "-"
Skipped(t) == t = << >> \/ t = <<"-">>

RECURSIVE getParseOptionsFrom(_, _, _)
getParseOptionsFrom(fields, k, acc) ==
    IF k > Len(fields) THEN [err |-> "nil", opts |-> acc]
    ELSE IF Skipped(fields[k].tag) THEN getParseOptionsFrom(fields, k + 1, acc)
    ELSE LET got == parseOptFromTag(fields[k].tag)
         IN  IF got.err # "nil" THEN [err |-> got.err, opts |-> << >>]
             ELSE getParseOptionsFrom(fields, k + 1, Append(acc, got.opt))

\* getParseOptions going on to the next field when a tag does not parse
RECURSIVE getParseOptionsIgnoringErrors(_)
getParseOptionsIgnoringErrors(fields) ==
    IF fields = << >> THEN [err |-> "nil", opts |-> << >>]
    ELSE LET rest == getParseOptionsIgnoringErrors(Tail(fields))
             got == parseOptFromTag(fields[1].tag)
         IN  IF Skipped(fields[1].tag) \/ got.err # "nil" THEN rest
             ELSE [err |-> "nil", opts |-> <<got.opt>> \o rest.opts]

getParseOptions(fields) == getParseOptionsFrom(fields, 1, << >>)

\* Less with the comparison turned round
LessDescending(a, b) == a.order > b.order

\* optsByOrder.Less
Less(a, b) == a.order < b.order

\* sort.Sort(optsByOrder(opts)): sort.Sort is not stable, so the result is any
\* arrangement of opts in which no element is Less than the one before it.
SortOutcomes(o) ==
    IF o = << >> THEN {<< >>}
    ELSE {[k \in 1..Len(o) |-> o[p[k]]] :
            p \in {q \in Permutations(1..Len(o)) :
                     \A k \in 1..(Len(o) - 1) : ~Less(o[q[k + 1]], o[q[k]])}}

\* for i, opt := range opts { orderToCellPos[opt.order] = i }   (0-based i)
BuildOrderToCellPos(o) ==
    [ord \in {o[k].order : k \in 1..Len(o)} |->
        (CHOOSE k \in 1..Len(o) :
            o[k].order = ord /\ \A m \in 1..Len(o) : o[m].order = ord => m <= k) - 1]

\* m[key] of a Go map: the zero value when the key is absent
MapGet(m, key) == IF key \in DOMAIN m THEN m[key] ELSE 0

\* writeHeadingFromOpts: the row of the headings of opts
HeadingRow(o) == [k \in 1..Len(o) |-> o[k].heading]

\* fillField without the test that skips the fields with no tag or the tag "-"
fillFieldNoSkip(vals, f) ==
    LET order == orderFromTag(data.fields[f].tag).val
        pos == MapGet(orderToCellPos, order)
    IN  IF pos >= Len(opts) THEN [panic |-> TRUE, vals |-> vals]
        ELSE [panic |-> FALSE,
              vals |-> [vals EXCEPT ![pos + 1] = FormatValue(item[f], opts[pos + 1])]]

\* fillField leaving the slot of a zero instant as it is
fillFieldKeepingZeroTime(vals, f) ==
    IF Skipped(data.fields[f].tag) THEN [panic |-> FALSE, vals |-> vals]
    ELSE LET order == orderFromTag(data.fields[f].tag).val
             pos == MapGet(orderToCellPos, order)
         IN  IF pos >= Len(opts) THEN [panic |-> TRUE, vals |-> vals]
             ELSE IF item[f].type = "time.Time" /\ IsZero(item[f])
             THEN [panic |-> FALSE, vals |-> vals]
             ELSE [panic |-> FALSE,
                   vals |-> [vals EXCEPT ![pos + 1] = FormatValue(item[f], opts[pos + 1])]]

\* The body of the loop over the fields of item, for field f: values after it.
\* opts[pos] and values[pos] panic when pos is out of range.
fillField(vals, f) ==
    IF Skipped(data.fields[f].tag) THEN [panic |-> FALSE, vals |-> vals]
    ELSE LET order == orderFromTag(data.fields[f].tag).val
             pos == MapGet(orderToCellPos, order)
         IN  IF pos >= Len(opts) THEN [panic |-> TRUE, vals |-> vals]
             ELSE [panic |-> FALSE,
                   vals |-> [vals EXCEPT ![pos + 1] = FormatValue(item[f], opts[pos + 1])]]

\* opts, err := getParseOptions(itemsType); if err != nil { return err }
GetParseOptions ==
    /\ pc = "writeWithTags"
    /\ LET got == getParseOptions(data.fields)
       IN  IF got.err # "nil"
           THEN /\ result' = got.err
                /\ pc' = "done"
                /\ opts' = opts
           ELSE /\ opts' = got.opts
                /\ pc' = "sort"
                /\ result' = result
    /\ UNCHANGED <<entry, data, orderToCellPos, values, i, j, item, records, sheet>>
    /\ UNCHANGED parseVars

\* sort.Sort(optsByOrder(opts)) and the filling of orderToCellPos
SortOpts ==
    /\ pc = "sort"
    /\ opts' \in SortOutcomes(opts)
    /\ orderToCellPos' = BuildOrderToCellPos(opts')
    /\ pc' = "heading"
    /\ UNCHANGED <<entry, data, values, i, j, item, records, sheet, result>>
    /\ UNCHANGED parseVars

\* writeHeadingFromOpts(sheet, opts); values := make([]string, len(opts))
WriteHeading ==
    /\ pc = "heading"
    /\ sheet' = writeRow(sheet, HeadingRow(opts))
    /\ values' = [k \in 1..Len(opts) |-> << >>]
    /\ i' = 1
    /\ pc' = "records"
    /\ UNCHANGED <<entry, data, opts, orderToCellPos, j, item, records, result>>
    /\ UNCHANGED parseVars

\* item := v.Index(i): the next record of data, each field holding a value of
\* its type
NextRecord ==
    /\ pc = "records"
    /\ i <= data.len
    /\ \E it \in [1..Len(data.fields) -> UNION {fd.vals : fd \in FieldPool}] :
          /\ \A f \in 1..Len(data.fields) : it[f] \in data.fields[f].vals
          /\ item' = it
          /\ records' = Append(records, it)
    /\ j' = 1
    /\ pc' = "fields"
    /\ UNCHANGED <<entry, data, opts, orderToCellPos, values, i, sheet, result>>
    /\ UNCHANGED parseVars

\* one pass of the loop over the fields of item
FieldStep ==
    /\ pc = "fields"
    /\ j <= Len(data.fields)
    /\ LET got == fillField(values, j)
       IN  IF got.panic
           THEN pc' = "done" /\ result' = "panic" /\ UNCHANGED <<values, j>>
           ELSE values' = got.vals /\ j' = j + 1 /\ UNCHANGED <<pc, result>>
    /\ UNCHANGED <<entry, data, opts, orderToCellPos, i, item, records, sheet>>
    /\ UNCHANGED parseVars

\* writeRow(sheet, values) after the last field
WriteRow ==
    /\ pc = "fields"
    /\ j > Len(data.fields)
    /\ sheet' = writeRow(sheet, values)
    /\ i' = i + 1
    /\ pc' = "records"
    /\ UNCHANGED <<entry, data, opts, orderToCellPos, values, j, item, records, result>>
    /\ UNCHANGED parseVars

\* return nil after the last record
ReturnNil ==
    /\ pc = "records"
    /\ i > data.len
    /\ pc' = "done"
    /\ result' = "nil"
    /\ UNCHANGED <<entry, data, opts, orderToCellPos, values, i, j, item, records, sheet>>
    /\ UNCHANGED parseVars

Next ==
    \/ WriteToSheet
    \/ MarshallerHeading
    \/ MarshallerRow
    \/ MarshallerReturn
    \/ GetParseOptions
    \/ SortOpts
    \/ WriteHeading
    \/ NextRecord
    \/ FieldStep
    \/ WriteRow
    \/ ReturnNil

Spec == Init /\ [][Next]_vars

(***************************************************************************)
(* Properties.                                                             *)
(***************************************************************************)
\* what parseOptFromTag gives for each field declaration
ParsedPool == [fd \in FieldPool |-> parseOptFromTag(fd.tag)]

SpecOf(f) == ParsedPool[data.fields[f]].opt

Malformed(f) == ParsedPool[data.fields[f]].err # "nil"

\* the fields whose annotation is neither empty nor "-"
Retained == {f \in 1..Len(data.fields) : data.fields[f].tag \notin {<< >>, <<"-">>}}

TagWrite == entry = "writeWithTags"

DistinctOrders ==
    \A f \in Retained : \A g \in Retained : f # g => SpecOf(f).order # SpecOf(g).order

\* the row slot (1-based) the code maps field f to, and the column spec there
SlotOf(f) == MapGet(orderToCellPos, SpecOf(f).order) + 1

\* The loop over the fields has just dealt with the retained field j - 1.
Placed == TagWrite /\ pc = "fields" /\ j > 1 /\ (j - 1) \in Retained
PlacedVal == item[j - 1]
PlacedOpt == opts[SlotOf(j - 1)]
PlacedText == values[SlotOf(j - 1)]

\* C1: on the tag path, when a retained field's annotation does not parse, the
\* call ends with an error and no row, heading or data, is ever appended to
\* the sheet.
C1_NoRowOnParseError ==
    (TagWrite /\ \E f \in Retained : Malformed(f)) =>
        /\ sheet = << >>
        /\ pc \in {"writeWithTags", "done"}
        /\ pc = "done" => result \in {"ErrSyntax", "ErrHeadingPropRequired"}

C1_Witness ==
    /\ TagWrite /\ pc = "done" /\ data.len = 2
    /\ Len(data.fields) = 2 /\ Retained = {1, 2}
    /\ ~Malformed(1) /\ Malformed(2)
    /\ result = "ErrHeadingPropRequired" /\ sheet = << >>

\* the retained field whose heading is h
FieldOfHeading(h) == CHOOSE f \in Retained : SpecOf(f).heading = h

\* C2: when the retained fields have pairwise distinct order values, the
\* heading row lists their headings in strictly ascending order value, and slot
\* k of every data row holds the formatted value of the field whose heading is
\* at index k of the heading row.
C2_ColumnsFollowOrder ==
    (TagWrite /\ DistinctOrders /\ sheet # << >>) =>
        /\ Len(sheet[1]) = Cardinality(Retained)
        /\ \A k \in 1..Len(sheet[1]) : \E f \in Retained : SpecOf(f).heading = sheet[1][k]
        /\ \A k \in 1..(Len(sheet[1]) - 1) :
              SpecOf(FieldOfHeading(sheet[1][k])).order
                  < SpecOf(FieldOfHeading(sheet[1][k + 1])).order
        /\ \A r \in 2..Len(sheet) :
              /\ Len(sheet[r]) = Len(sheet[1])
              /\ \A k \in 1..Len(sheet[1]) :
                    LET f == FieldOfHeading(sheet[1][k])
                    IN  sheet[r][k] = FormatValue(records[r - 1][f], SpecOf(f))

C2_Witness ==
    /\ TagWrite /\ pc = "done" /\ result = "nil" /\ DistinctOrders
    /\ Retained = {1, 2} /\ SpecOf(1).order > SpecOf(2).order
    /\ data.len = 2 /\ Len(sheet) = 3

\* the position of field f when the retained fields are sorted by order value
\* with ties kept in declaration order
StableRank(f) ==
    1 + Cardinality({g \in Retained :
                        \/ SpecOf(g).order < SpecOf(f).order
                        \/ (SpecOf(g).order = SpecOf(f).order /\ g < f)})

HasTie == ~DistinctOrders

\* C3: when retained fields share an order value, every retained field has its
\* own column, tied columns stand in declaration order, and every data row
\* carries each field's own formatted value under its own heading.  Stated for
\* the runs in which the heading row did come out in declaration order (the
\* sort kept the ties in place): there the data rows are as the claim says.
C3_TiesKeepDeclarationOrder ==
    (/\ TagWrite /\ HasTie /\ sheet # << >>
     /\ \A f \in Retained : sheet[1][StableRank(f)] = SpecOf(f).heading) =>
        \A f \in Retained : \A r \in 2..Len(sheet) :
            sheet[r][StableRank(f)] = FormatValue(records[r - 1][f], SpecOf(f))

\* C4: on a tag write every appended row is as long as the number of retained
\* fields, every heading is a retained field's heading, and every cell of a
\* data row is empty or the formatting of a retained field's value: nothing of
\* a field with no annotation or the annotation "-" appears.
C4_ExcludedFieldsLeaveNothing ==
    (TagWrite /\ sheet # << >>) =>
        /\ \A r \in 1..Len(sheet) : Len(sheet[r]) = Cardinality(Retained)
        /\ \A k \in 1..Len(sheet[1]) : \E f \in Retained : SpecOf(f).heading = sheet[1][k]
        /\ \A r \in 2..Len(sheet) : \A k \in 1..Len(sheet[r]) :
              \/ sheet[r][k] = << >>
              \/ \E f \in Retained : \E g \in Retained :
                    sheet[r][k] = FormatValue(records[r - 1][f], SpecOf(g))

C4_Witness ==
    /\ TagWrite /\ pc = "done" /\ result = "nil" /\ data.len = 2
    /\ Len(data.fields) = 2 /\ Retained = {1} /\ data.fields[2].tag = <<"-">>
    /\ Len(sheet) = 3 /\ Len(sheet[3]) = 1 /\ sheet[3][1] # << >>

\* the format of a column applied to a value, and the default text of a value
Formatted(val, opt) ==
    IF val.type = "time.Time" THEN TimeFormat(val, opt.format) ELSE Sprintf(opt.format, val)

Unformatted(val) ==
    IF val.type = "time.Time" THEN TimeString(val) ELSE DefaultText(val)

\* C5: for a numeric, text or non-zero instant value the column's format is
\* applied exactly when it is present (non-empty); with no format the default
\* text of the value is used.
C5_FormatAppliedIffPresent ==
    (/\ Placed
     /\ PlacedVal.type \in {"int", "string", "time.Time"}
     /\ PlacedVal.type = "time.Time" => ~IsZero(PlacedVal)) =>
        PlacedText = IF PlacedOpt.format # << >> THEN Formatted(PlacedVal, PlacedOpt)
                     ELSE Unformatted(PlacedVal)

\* C6: a zero instant is stored as " - " whether or not the column has a
\* format; for a non-zero instant the placeholder is never substituted.
C6_ZeroInstantPlaceholder ==
    (Placed /\ PlacedVal.type = "time.Time") =>
        IF IsZero(PlacedVal) THEN PlacedText = Placeholder
        ELSE /\ PlacedText # Placeholder
             /\ PlacedText \in {TimeFormat(PlacedVal, PlacedOpt.format),
                                TimeString(PlacedVal)}

C6_Witness ==
    /\ Placed /\ PlacedVal.type = "time.Time" /\ IsZero(PlacedVal)
    /\ PlacedOpt.format # << >> /\ PlacedText = Placeholder

\* C7 as stated: for every value whose runtime type has a String() method,
\* instants included, the string stored is the result of String().
C7_EveryStringerUsesString ==
    (Placed /\ IsStringer(PlacedVal)) => PlacedText = String(PlacedVal)

\* C7 amended: for every value whose runtime type has a String() method and is
\* not time.Time, the string stored is the result of String(), and not the
\* column's format applied to the value it is built on.
C7_NamedStringerUsesString ==
    (Placed /\ IsStringer(PlacedVal) /\ PlacedVal.type # "time.Time") =>
        /\ PlacedText = String(PlacedVal)
        /\ PlacedText # Sprintf(PlacedOpt.format, [type |-> "int", n |-> PlacedVal.n])

C7_Witness ==
    /\ Placed /\ PlacedVal.type = "Level" /\ PlacedOpt.format # << >>
    /\ PlacedText = LevelString(PlacedVal)

\* C8: a Marshaller that passes the checks of WriteToSheet makes the call
\* return nil with exactly the header and then the provided rows appended.
C8_MarshallerRowsVerbatim ==
    (/\ entry = "WriteToSheet" /\ pc = "done"
     /\ data.kind \in {"array", "slice"} /\ data.elem = "struct" /\ data.marshaller) =>
        /\ result = "nil"
        /\ sheet = <<data.header>> \o data.rows

\* what the parts of the tag under test stand for
ExpectedOpt ==
    [order |-> tagParts.n.value, heading |-> tagParts.h.value, format |-> tagParts.f]

\* C9 as stated: for every decimal integer N, non-blank heading H and non-empty
\* format F, in every key order, parseOptFromTag succeeds with order N, heading
\* H stripped and trimmed, and format F (empty when absent).
C9_AnyPartsParse ==
    parsed.err # "pending" => parsed = [err |-> "nil", opt |-> ExpectedOpt]

AllIn(s, chars) == \A k \in 1..Len(s) : s[k] \in chars

WordChars ==
    Letters \cup {"0", "1", "2", "3", "4", "5", "6", "7", "8", "9", "_"}

WhiteSpace == {" ", "\t", "\n", "\f", "\r"}

\* N is made of decimal digits only
OrderToken(s) == s # << >> /\ AllIn(s, {"0", "1", "2", "3", "4", "5", "6", "7", "8", "9"})

\* H is unquoted and made of word characters, # and white space, or quoted and
\* made of word characters and # . , - / \ and spaces
HeadingToken(s) ==
    \/ s # << >> /\ AllIn(s, WordChars \cup WhiteSpace \cup {"#"})
    \/ /\ Len(s) > 2 /\ s[1] = "\"" /\ s[Len(s)] = "\""
       /\ AllIn(SubSeq(s, 2, Len(s) - 1),
                WordChars \cup {"#", ".", ",", "-", "/", "\\", " "})

\* F is made of word characters, white space and - % . \ /
FormatToken(s) == AllIn(s, WordChars \cup WhiteSpace \cup {"-", "%", ".", "\\", "/"})

InGrammar(parts) ==
    OrderToken(parts.n.text) /\ HeadingToken(parts.h.text) /\ FormatToken(parts.f)

\* C9 amended: the same, for N made of decimal digits only, H made only of the
\* characters the heading pattern admits, and F made only of the characters
\* the format pattern admits.
C9_GrammarPartsParse ==
    (parsed.err # "pending" /\ InGrammar(tagParts)) =>
        parsed = [err |-> "nil", opt |-> ExpectedOpt]

C9_Witness ==
    /\ parsed.err = "nil" /\ InGrammar(tagParts)
    /\ tagParts.keys = <<"format", "heading", "order">>
    /\ tagParts.h.text = <<"\"", " ", "x", " ", "\"">>
    /\ tagParts.f = <<"%", ".", "2", "f">>
    /\ parsed.opt = [order |-> 12, heading |-> <<"x">>, format |-> <<"%", ".", "2", "f">>]

\* the retained fields the code maps to row slot k
WritersOf(k) == {f \in Retained : SlotOf(f) = k}

\* the data row of a record: each slot holds the formatting of the last field,
\* in declaration order, mapped to it, and is empty when no field is
ExpectedRow(rec) ==
    [k \in 1..Len(opts) |->
        IF WritersOf(k) = {} THEN << >>
        ELSE LET f == CHOOSE g \in WritersOf(k) : \A h \in WritersOf(k) : h <= g
             IN  FormatValue(rec[f], opts[k])]

\* C10: a tag write of n records that succeeds appends n + 1 rows, the heading
\* row first and then one row per record in input order, and the row of the
\* k-th record depends on that record and the column specs alone, although one
\* buffer is used for all rows.
C10_OneRowPerRecord ==
    TagWrite =>
        /\ (pc = "done" /\ result = "nil") => Len(sheet) = data.len + 1
        /\ Len(sheet) <= data.len + 1
        /\ sheet # << >> =>
              /\ sheet[1] = [k \in 1..Len(opts) |-> opts[k].heading]
              /\ Len(sheet) = Len(records) + (IF pc = "fields" THEN 0 ELSE 1)
              /\ \A r \in 2..Len(sheet) : sheet[r] = ExpectedRow(records[r - 1])

C10_Witness ==
    /\ TagWrite /\ pc = "done" /\ result = "nil" /\ data.len = 2
    /\ Len(sheet) = 3 /\ records[1] # records[2] /\ sheet[2] # sheet[3]
    /\ \E k \in 1..Len(sheet[3]) : sheet[2][k] = Placeholder /\ sheet[3][k] # Placeholder

====
